---- MODULE Spec2Model ----
(***************************************************************************)
(* Model of src/src/audiobook_scraper.py: the catalog extractor            *)
(* (AudiobookScraper), the downloaders and the tagger (FileManager), the   *)
(* per-item processor (AudiobookProcessor) and the driver (main and the    *)
(* command-line block).  The remote site and the HTTP transport are the    *)
(* environment: every GET draws its response from a bounded set.           *)
(***************************************************************************)
EXTENDS Integers, Sequences, FiniteSets, TLC

\* Python's None, for an Optional[str]; and for an optional text
None == "None"
NoneText == << None >>

(* ----------------------------- bounds -------------------------------- *)
\* length of a resource's body, in chunks as iter_content yields them
BodyLen == 2
\* most candidate <div class="audiobook"> elements of a catalog page
MaxCandidates == 2
\* most invocations of the script against the same destination directory
MaxRuns == 2
\* largest max_retries argument tried on download_mp3 called on its own
MaxRetriesArg == 4

(* ------------------------ program constants -------------------------- *)
\* download_mp3(..., max_retries: int = 3)
DefaultMaxRetries == 3
\* album_name = 'Kubus Storytel'
AlbumName == "Kubus Storytel"

(* --------------------------- text helpers ---------------------------- *)
\* Text is a sequence of one-character strings, so that trimming is computed.
IsSpace(c) == c = " "

RECURSIVE LStrip(_)
LStrip(s) == IF s # <<>> /\ IsSpace(Head(s)) THEN LStrip(Tail(s)) ELSE s

RECURSIVE RStrip(_)
RStrip(s) ==
    IF s # <<>> /\ IsSpace(s[Len(s)]) THEN RStrip(SubSeq(s, 1, Len(s) - 1)) ELSE s

\* str.strip() as get_text(strip=True) applies it to the title's text node
Strip(s) == RStrip(LStrip(s))

\* Python truthiness of an Optional[str]: None and '' are falsy
Truthy(x) == x # None /\ x # ""
TruthyText(t) == t # NoneText /\ t # << >>

(* ----------------------- the catalog document ------------------------ *)
\* what a title <div> may hold; NoneText: the candidate has no title <div>
RawTitles ==
    { NoneText, <<>>, <<" ">>, <<" ", "A", " ">>, <<"B">>, <<"A", " ", "B">> }

\* the data-id attribute: missing, empty, or an identifier
DataIds == { None, "", "42" }

\* the cover <div>: None (no div or no style attribute), a style the pattern
\* does not match, or a style carrying background-image: url(<u>)
CoverUrls == { "c1", "c2" }
CoverStyles == { None, "nomatch", "c1" }
AudioUrls == { "a1", "a2" }

Candidates == [ data_id : DataIds, title : RawTitles, style : CoverStyles ]

\* the candidates the whole-program specification draws its catalog from
PipelineCandidates ==
    [ data_id : { "42" }, title : { <<" ", "A", " ">>, <<"B">> },
      style : { None, "c1" } ]

\* the candidates of a page on which a title can appear twice, with the
\* same or with another cover URL
DupCandidates ==
    [ data_id : { "42" }, title : { <<" ", "A", " ">>, <<"B">> }, style : CoverUrls ]

SeqsUpTo(S, n) == UNION { [ 1..k -> S ] : k \in 0..n }

Titles == { Strip(t) : t \in RawTitles \ { NoneText } } \ { <<>> }

(* ----------------------------- transport ----------------------------- *)
\* One GET.  kind: "invalid_url" (requests refuses the URL), "conn_error"
\* (connection error or timeout), "http_error" (raise_for_status), "ok".
\* For "ok", total is the body's length (nothing, or the resource's BodyLen
\* chunks) and got the chunks that arrive before the stream breaks
\* (got = total: the whole body arrives).
Failure(k) == [ kind |-> k, total |-> 0, got |-> 0 ]

Responses ==
    { Failure("conn_error"), Failure("http_error") }
      \cup { r \in [ kind : { "ok" }, total : { 0, BodyLen }, got : 0..BodyLen ] :
                 r.got <= r.total }

\* requests.get(url, ...): a URL of None raises MissingSchema, a RequestException
Get(url) == IF url = None THEN { Failure("invalid_url") } ELSE Responses

(* ----------------------------- filesystem ---------------------------- *)
\* A path: whether a file exists there, the URL it was written from, the
\* chunks written, the length of the body it was written from, and its ID3
\* tag (NoTag: no tag header).
NoTag == [ TIT2 |-> NoneText, TALB |-> None, APIC |-> 0 ]

NoFile == [ exists |-> FALSE, src |-> None, written |-> 0, total |-> 0, tag |-> NoTag ]

MkFile(url, written, total) ==
    [ exists |-> TRUE, src |-> url, written |-> written, total |-> total, tag |-> NoTag ]

\* destination / title, with cover.jpg and <title>.mp3 in it
NoFolder == [ exists |-> FALSE, cover |-> NoFile, mp3 |-> NoFile ]

\* a file holds a complete payload: all of a non-empty body
Complete(f) == f.exists /\ f.written = f.total /\ f.written > 0

(* ------------------ AudiobookScraper: pure parts --------------------- *)
\* a variant that reads the title with get_text() and no strip
TitleOfUnstripped(div) == div.title

\* title_div.get_text(strip=True) if title_div else None
TitleOf(div) == IF div.title = NoneText THEN NoneText ELSE Strip(div.title)

\* extract_image_url: the URL of the background-image declaration, or None
extract_image_url(style) == IF style \in CoverUrls THEN style ELSE None

\* What get_audio_src's GET and parse can come to.
ResolveOutcomes == { "transport_error", "no_source" } \cup AudioUrls

\* a variant whose handler logs the RequestException and re-raises it
AudioSrcReraise(e) == [ raised |-> TRUE, value |-> None ]

\* get_audio_src's handler (lines 75-77): the failure is logged, None returned
AudioSrcExcept(e) == [ raised |-> FALSE, value |-> None ]

\* get_audio_src: the <source type="audio/mpeg"> src, None when the tag is
\* missing and None when the GET raised a RequestException
get_audio_src(outcome) ==
    IF outcome \in AudioUrls THEN outcome
    ELSE IF outcome = "transport_error" THEN AudioSrcExcept("RequestException").value
    ELSE None

\* an exception leaves get_audio_src
get_audio_src_raises(outcome) ==
    outcome = "transport_error" /\ AudioSrcExcept("RequestException").raised

\* the outcomes open to the resolver for a candidate: it is called only
\* when data_id is truthy (line 51)
ResolveChoices(div) == IF Truthy(div.data_id) THEN ResolveOutcomes ELSE { "not_called" }

\* a variant that drops a candidate only when it lacks both
KeptEither(title, data_id) == TruthyText(title) \/ Truthy(data_id)

\* line 53, negated: the candidate is kept
Kept(title, data_id) == TruthyText(title) /\ Truthy(data_id)

\* one pass of the loop body of extract_audiobook_data: what it appends
ExtractDiv(div, outcome) ==
    IF Kept(TitleOf(div), div.data_id)
    THEN << [ title |-> TitleOf(div),
              cover_link |-> extract_image_url(div.style),
              audio_link |-> get_audio_src(outcome) ] >>
    ELSE << >>

\* a variant whose handler logs and re-raises, as fetch_page's does
RunReraise(e) == [ raised |-> TRUE, value |-> << >> ]

\* run's handler (lines 90-92): the failure is logged and [] returned
RunExcept(e) == [ raised |-> FALSE, value |-> << >> ]

(* --------------------- FileManager: pure parts ----------------------- *)
\* download_file: requests.get and raise_for_status come before the open;
\* the file is opened 'wb' (created or truncated) and the chunks are written
\* as they arrive, so a stream that breaks leaves what had arrived.
\* RequestException is logged and re-raised.
download_file_swallow(url, resp, old) ==
    IF resp.kind # "ok"
    THEN [ raised |-> FALSE, file |-> old ]
    ELSE [ raised |-> FALSE,
           file |-> MkFile(url, resp.got, resp.total) ]

\* a variant that returns without a file when there is no URL
download_file_skip_none(url, resp, old) ==
    IF url = None
    THEN [ raised |-> FALSE, file |-> old ]
    ELSE IF resp.kind # "ok"
    THEN [ raised |-> TRUE, file |-> old ]
    ELSE [ raised |-> resp.got < resp.total,
           file |-> MkFile(url, resp.got, resp.total) ]

download_file(url, resp, old) ==
    IF resp.kind # "ok"
    THEN [ raised |-> TRUE, file |-> old ]
    ELSE [ raised |-> resp.got < resp.total,
           file |-> MkFile(url, resp.got, resp.total) ]

\* a variant with the loop bound off by one
Mp3LoopGuardInclusive(att, max) == att <= max

\* while attempt < max_retries
\* a variant that tests the bound after the first attempt (do ... while)
Mp3LoopGuardDoWhile(att, max) == att = 0 \/ att < max

Mp3LoopGuard(att, max) == att < max

\* a variant without the two emptiness checks: an empty body is written
\* out and taken for a success
Mp3AttemptNoEmptyCheck(url, resp, old) ==
    IF resp.kind # "ok" \/ resp.got < resp.total
    THEN [ failed |-> TRUE, file |-> old ]
    ELSE [ failed |-> FALSE, file |-> MkFile(url, resp.total, resp.total) ]

\* a variant without the return after a successful write: the loop goes on
Mp3AttemptNoReturn(url, resp, old) ==
    IF resp.kind # "ok" \/ resp.got < resp.total \/ resp.total = 0
    THEN [ failed |-> TRUE, file |-> old ]
    ELSE [ failed |-> TRUE, file |-> MkFile(url, resp.total, resp.total) ]

\* One pass of download_mp3's loop body.  response.content reads the whole
\* body before the file is opened: a broken stream raises there, an empty
\* body raises ValueError; otherwise the body is written from memory and the
\* file's size is checked.  failed: the except clause ran.
\* a variant that writes the chunks as they arrive, the way download_file does
Mp3AttemptStreaming(url, resp, old) ==
    IF resp.kind # "ok"
    THEN [ failed |-> TRUE, file |-> old ]
    ELSE [ failed |-> resp.got < resp.total \/ resp.total = 0,
           file |-> MkFile(url, resp.got, resp.total) ]

Mp3Attempt(url, resp, old) ==
    IF resp.kind # "ok" \/ resp.got < resp.total
    THEN [ failed |-> TRUE, file |-> old ]
    ELSE IF resp.total = 0
    THEN [ failed |-> TRUE, file |-> old ]
    ELSE [ failed |-> MkFile(url, resp.total, resp.total).written = 0,
           file |-> MkFile(url, resp.total, resp.total) ]

\* set_mp3_metadata: title, album and cover frames saved into the mp3
set_mp3_metadata(mp3, audio_name, album_name, cover) ==
    [ mp3 EXCEPT !.tag = [ TIT2 |-> audio_name, TALB |-> album_name,
                           APIC |-> cover.written ] ]

(* -------------------- AudiobookProcessor: pure parts ----------------- *)
\* a variant that also wants the cover to be whole before it is skipped
CoverExistsAndWhole(folder) ==
    folder.cover.exists /\ folder.cover.written = folder.cover.total /\ folder.cover.written > 0

\* a variant that never finds the cover on disk
CoverExistsNever(folder) == FALSE

\* self.cover_path.exists()
CoverExists(folder) == folder.cover.exists

\* a variant that tests a path nothing is ever written to
Mp3ExistsElsewhere(folder) == FALSE

\* a variant with the test inverted: if self.mp3_path.exists()
Mp3ExistsInverted(folder) == ~folder.mp3.exists

\* self.mp3_path.exists()
Mp3Exists(folder) == folder.mp3.exists

(* ------------------------------- state ------------------------------- *)
VARIABLES
    argv_ok,      \* sys.argv holds one argument and it names a directory
    pc,           \* where the script is
    exit_code,    \* the process's exit code once pc = "exited"
    runs,         \* invocations of the script so far
    catalog,      \* the candidates of the remote catalog page, in document order
    div_i,        \* extract_audiobook_data: index of the next candidate
    audiobooks,   \* extract_audiobook_data: the records appended so far
    origin,       \* for each record appended, the index of its candidate
    last_resolve, \* what get_audio_src's GET came to for the latest candidate
    fetch_failed, \* fetch_page raised in this invocation
    item_i,       \* main: index of the record being processed
    proc,         \* the AudiobookProcessor under way
    outcomes,     \* main: how process() ended for each record taken so far
    fs,           \* the destination directory: title -> item folder
    done,         \* title -> the folder as the last completed process() left it
    mp3_url,      \* download_mp3: url
    mp3_dest,     \* download_mp3: destination_path, by the title of its folder
    max_retries,  \* download_mp3: max_retries
    attempt,      \* download_mp3: attempt
    last_kind,    \* download_mp3: what the latest attempt's GET came to
    exc,          \* the exception in flight
    cover_calls,  \* transport calls of download_file in the current process()
    audio_calls,  \* transport calls of download_mp3 in the current call
    audio_fails,  \* of those, the ones whose GET brought no whole non-empty body
    tag_calls     \* set_mp3_metadata calls in the current process()

cliVars == << argv_ok, exit_code, runs >>
scrapeVars == << catalog, div_i, audiobooks, origin, last_resolve, fetch_failed >>
mainVars == << item_i, proc, outcomes >>
mp3Vars == << mp3_url, mp3_dest, max_retries, attempt, last_kind >>
countVars == << cover_calls, audio_calls, audio_fails, tag_calls >>
vars == << cliVars, scrapeVars, mainVars, mp3Vars, countVars, pc, fs, done, exc >>

NoExit == -1
NoProc == [ audio_name |-> NoneText, cover_link |-> None, audio_link |-> None ]

\* AudiobookProcessor.__init__: folder_path, cover_path and mp3_path all derive
\* from audio_name, so the processor is the record itself
AudiobookProcessor(audiobook) ==
    [ audio_name |-> audiobook.title, cover_link |-> audiobook.cover_link,
      audio_link |-> audiobook.audio_link ]

folder == fs[proc.audio_name]

\* what a GET came to, as download_mp3 tells the cases apart
Classify(resp) ==
    IF resp.kind # "ok" THEN resp.kind
    ELSE IF resp.got < resp.total THEN "broken"
    ELSE IF resp.total = 0 THEN "empty"
    ELSE "body"

Fresh ==
    /\ pc = "cli"
    /\ argv_ok = FALSE
    /\ exit_code = NoExit
    /\ div_i = 1
    /\ audiobooks = << >>
    /\ origin = << >>
    /\ last_resolve = "none"
    /\ fetch_failed = FALSE
    /\ item_i = 1
    /\ proc = NoProc
    /\ outcomes = << >>
    /\ mp3_url = None
    /\ mp3_dest = NoneText
    /\ max_retries = 0
    /\ attempt = 0
    /\ last_kind = "none"
    /\ exc = "none"
    /\ cover_calls = 0
    /\ audio_calls = 0
    /\ audio_fails = 0
    /\ tag_calls = 0

Init ==
    /\ Fresh
    /\ runs = 1
    /\ catalog \in SeqsUpTo(PipelineCandidates, MaxCandidates)
    /\ fs = [ t \in Titles |-> NoFolder ]
    /\ done = [ t \in Titles |-> NoFolder ]

(* ------------------------- the command line -------------------------- *)
\* lines 230-237: a wrong argument count or a path that is no directory
CliReject ==
    /\ pc = "cli"
    /\ pc' = "exited"
    /\ exit_code' = 1
    /\ UNCHANGED << argv_ok, runs, scrapeVars, mainVars, mp3Vars, countVars, fs, done, exc >>

\* line 239: main(destination_dir)
CliAccept ==
    /\ pc = "cli"
    /\ argv_ok' = TRUE
    /\ pc' = "fetch"
    /\ UNCHANGED << exit_code, runs, scrapeVars, mainVars, mp3Vars, countVars, fs, done, exc >>

(* ------------------------- AudiobookScraper.run ---------------------- *)
\* fetch_page returns the parsed page
FetchPageOk ==
    /\ pc = "fetch"
    /\ pc' = "extract"
    /\ div_i' = 1
    /\ audiobooks' = << >>
    /\ origin' = << >>
    /\ UNCHANGED << cliVars, catalog, last_resolve, fetch_failed, mainVars, mp3Vars, countVars,
                    fs, done, exc >>

\* fetch_page logs and re-raises the RequestException; run's handler takes it
FetchPageFail ==
    /\ pc = "fetch"
    /\ fetch_failed' = TRUE
    /\ LET r == RunExcept("RequestException") IN
         /\ audiobooks' = r.value
         /\ pc' = IF r.raised THEN "raise" ELSE "main_loop"
         /\ exc' = IF r.raised THEN "RequestException" ELSE exc
    /\ UNCHANGED << cliVars, catalog, div_i, origin, last_resolve, mainVars, mp3Vars,
                    countVars, fs, done >>

\* one pass of the loop of extract_audiobook_data
ExtractCandidate ==
    /\ pc = "extract"
    /\ div_i <= Len(catalog)
    /\ \E outcome \in ResolveChoices(catalog[div_i]) :
         /\ last_resolve' = outcome
         /\ IF get_audio_src_raises(outcome)
            THEN \* the exception leaves extract_audiobook_data; run's handler takes it
                 LET r == RunExcept("RequestException") IN
                   /\ audiobooks' = r.value
                   /\ origin' = << >>
                   /\ pc' = IF r.raised THEN "raise" ELSE "main_loop"
                   /\ exc' = IF r.raised THEN "RequestException" ELSE exc
            ELSE LET new == ExtractDiv(catalog[div_i], outcome) IN
                   /\ audiobooks' = audiobooks \o new
                   /\ origin' = IF new = << >> THEN origin ELSE Append(origin, div_i)
                   /\ pc' = pc
                   /\ exc' = exc
    /\ div_i' = div_i + 1
    /\ UNCHANGED << cliVars, catalog, fetch_failed, mainVars, mp3Vars, countVars, fs, done >>

\* return audiobooks, through run, to main
ExtractReturn ==
    /\ pc = "extract"
    /\ div_i > Len(catalog)
    /\ pc' = "main_loop"
    /\ last_resolve' = "none"
    /\ UNCHANGED << cliVars, catalog, div_i, audiobooks, origin, fetch_failed, mainVars,
                    mp3Vars, countVars, fs, done, exc >>

(* -------------------------------- main ------------------------------- *)
\* for audiobook in audiobooks: processor = AudiobookProcessor(...)
NextItem ==
    /\ pc = "main_loop"
    /\ item_i <= Len(audiobooks)
    /\ proc' = AudiobookProcessor(audiobooks[item_i])
    /\ cover_calls' = 0
    /\ audio_calls' = 0
    /\ audio_fails' = 0
    /\ tag_calls' = 0
    /\ pc' = "mkdir"
    /\ UNCHANGED << cliVars, scrapeVars, item_i, outcomes, mp3Vars, fs, done, exc >>

\* the loop is over: main returns and the interpreter exits with 0
MainReturn ==
    /\ pc = "main_loop"
    /\ item_i > Len(audiobooks)
    /\ pc' = "exited"
    /\ exit_code' = 0
    /\ UNCHANGED << argv_ok, runs, scrapeVars, mainVars, mp3Vars, countVars, fs, done, exc >>

\* An exception leaves process(): main's loop has no handler and neither has
\* the __main__ block, so the interpreter prints the traceback and exits 1.
Uncaught ==
    /\ pc = "raise"
    /\ outcomes' = IF proc = NoProc THEN outcomes ELSE Append(outcomes, "failed")
    /\ pc' = "exited"
    /\ exit_code' = 1
    /\ UNCHANGED << argv_ok, runs, scrapeVars, item_i, proc, mp3Vars, countVars, fs, done, exc >>

\* the script is started again on the same destination directory
Rerun ==
    /\ pc = "exited"
    /\ runs < MaxRuns
    /\ runs' = runs + 1
    /\ pc' = "cli"
    /\ argv_ok' = FALSE
    /\ exit_code' = NoExit
    /\ div_i' = 1
    /\ audiobooks' = << >>
    /\ origin' = << >>
    /\ last_resolve' = "none"
    /\ fetch_failed' = FALSE
    /\ item_i' = 1
    /\ proc' = NoProc
    /\ outcomes' = << >>
    /\ mp3_url' = None
    /\ mp3_dest' = NoneText
    /\ max_retries' = 0
    /\ attempt' = 0
    /\ last_kind' = "none"
    /\ exc' = "none"
    /\ cover_calls' = 0
    /\ audio_calls' = 0
    /\ audio_fails' = 0
    /\ tag_calls' = 0
    /\ UNCHANGED << catalog, fs, done >>

(* ---------------------- AudiobookProcessor.process ------------------- *)
\* self.folder_path.mkdir(parents=True, exist_ok=True)
Mkdir ==
    /\ pc = "mkdir"
    /\ fs' = [ fs EXCEPT ![proc.audio_name].exists = TRUE ]
    /\ pc' = "cover"
    /\ UNCHANGED << cliVars, scrapeVars, mainVars, mp3Vars, countVars, done, exc >>

\* if not self.cover_path.exists(): not taken
CoverSkip ==
    /\ pc = "cover"
    /\ CoverExists(folder)
    /\ pc' = "audio"
    /\ UNCHANGED << cliVars, scrapeVars, mainVars, mp3Vars, countVars, fs, done, exc >>

\* FileManager.download_file(self.cover_link, self.cover_path)
CoverDownload ==
    /\ pc = "cover"
    /\ ~CoverExists(folder)
    /\ cover_calls' = cover_calls + 1
    /\ \E resp \in Get(proc.cover_link) :
         LET r == download_file(proc.cover_link, resp, folder.cover) IN
           /\ fs' = [ fs EXCEPT ![proc.audio_name].cover = r.file ]
           /\ pc' = IF r.raised THEN "raise" ELSE "audio"
           /\ exc' = IF r.raised THEN "RequestException" ELSE exc
    /\ UNCHANGED << cliVars, scrapeVars, mainVars, mp3Vars, audio_calls, audio_fails,
                    tag_calls, done >>

\* if not self.mp3_path.exists(): not taken
AudioSkip ==
    /\ pc = "audio"
    /\ Mp3Exists(folder)
    /\ pc' = "tag"
    /\ UNCHANGED << cliVars, scrapeVars, mainVars, mp3Vars, countVars, fs, done, exc >>

\* FileManager.download_mp3(self.audio_link, self.mp3_path): attempt = 0
AudioCall ==
    /\ pc = "audio"
    /\ ~Mp3Exists(folder)
    /\ mp3_url' = proc.audio_link
    /\ mp3_dest' = proc.audio_name
    /\ max_retries' = DefaultMaxRetries
    /\ attempt' = 0
    /\ last_kind' = "none"
    /\ audio_calls' = 0
    /\ audio_fails' = 0
    /\ pc' = "mp3_loop"
    /\ UNCHANGED << cliVars, scrapeVars, mainVars, cover_calls, tag_calls, fs, done, exc >>

\* one pass of the while loop of download_mp3
\* a variant whose except clause forgets attempt += 1
Mp3TryNoIncrement ==
    /\ pc = "mp3_loop"
    /\ Mp3LoopGuard(attempt, max_retries)
    /\ audio_calls' = audio_calls + 1
    /\ \E resp \in Get(mp3_url) :
         LET r == Mp3Attempt(mp3_url, resp, fs[mp3_dest].mp3) IN
           /\ last_kind' = Classify(resp)
           /\ audio_fails' = IF Classify(resp) = "body" THEN audio_fails
                              ELSE audio_fails + 1
           /\ fs' = [ fs EXCEPT ![mp3_dest].mp3 = r.file ]
           /\ attempt' = attempt
           /\ pc' = IF r.failed THEN "mp3_loop" ELSE "mp3_return"
    /\ UNCHANGED << cliVars, scrapeVars, mainVars, mp3_url, mp3_dest, max_retries,
                    cover_calls, tag_calls, done, exc >>

Mp3Try ==
    /\ pc = "mp3_loop"
    /\ Mp3LoopGuard(attempt, max_retries)
    /\ audio_calls' = audio_calls + 1
    /\ \E resp \in Get(mp3_url) :
         LET r == Mp3Attempt(mp3_url, resp, fs[mp3_dest].mp3) IN
           /\ last_kind' = Classify(resp)
           /\ audio_fails' = IF Classify(resp) = "body" THEN audio_fails
                              ELSE audio_fails + 1
           /\ fs' = [ fs EXCEPT ![mp3_dest].mp3 = r.file ]
           /\ attempt' = IF r.failed THEN attempt + 1 ELSE attempt
           /\ pc' = IF r.failed THEN "mp3_loop" ELSE "mp3_return"
    /\ UNCHANGED << cliVars, scrapeVars, mainVars, mp3_url, mp3_dest, max_retries,
                    cover_calls, tag_calls, done, exc >>

\* the loop is left: raise ValueError("Max retries exceeded")
Mp3GiveUp ==
    /\ pc = "mp3_loop"
    /\ ~Mp3LoopGuard(attempt, max_retries)
    /\ exc' = "MaxRetriesExceeded"
    /\ pc' = "mp3_raise"
    /\ UNCHANGED << cliVars, scrapeVars, mainVars, mp3Vars, countVars, fs, done >>

\* download_mp3's frame is left: its locals are gone
Mp3FrameLeft ==
    /\ mp3_url' = None
    /\ mp3_dest' = NoneText
    /\ max_retries' = 0
    /\ attempt' = 0
    /\ last_kind' = "none"
    /\ audio_fails' = 0

\* download_mp3 returned into process()
AudioReturn ==
    /\ pc = "mp3_return"
    /\ proc # NoProc
    /\ pc' = "tag"
    /\ Mp3FrameLeft
    /\ UNCHANGED << cliVars, scrapeVars, mainVars, cover_calls, audio_calls, tag_calls,
                    fs, done, exc >>

\* download_mp3 raised into process(), which has no handler
\* a variant that removes the item folder before the failure leaves process()
AudioRaiseCleanup ==
    /\ pc = "mp3_raise"
    /\ proc # NoProc
    /\ pc' = "raise"
    /\ Mp3FrameLeft
    /\ fs' = [ fs EXCEPT ![proc.audio_name] = NoFolder ]
    /\ UNCHANGED << cliVars, scrapeVars, mainVars, cover_calls, audio_calls, tag_calls,
                    done, exc >>

AudioRaise ==
    /\ pc = "mp3_raise"
    /\ proc # NoProc
    /\ pc' = "raise"
    /\ Mp3FrameLeft
    /\ UNCHANGED << cliVars, scrapeVars, mainVars, cover_calls, audio_calls, tag_calls,
                    fs, done, exc >>

\* FileManager.set_mp3_metadata(...): it saves the tag, or an I/O failure
\* of the load or the save propagates
Tag ==
    /\ pc = "tag"
    /\ tag_calls' = tag_calls + 1
    /\ \E io_ok \in BOOLEAN :
         IF io_ok
         THEN /\ fs' = [ fs EXCEPT ![proc.audio_name].mp3 =
                           set_mp3_metadata(folder.mp3, proc.audio_name, AlbumName,
                                            folder.cover) ]
              /\ pc' = "process_done"
              /\ exc' = exc
         ELSE /\ fs' = fs
              /\ pc' = "raise"
              /\ exc' = "IOError"
    /\ UNCHANGED << cliVars, scrapeVars, mainVars, mp3Vars, cover_calls, audio_calls,
                    audio_fails, done >>

\* process() returns; main's loop takes the next record
ProcessReturn ==
    /\ pc = "process_done"
    /\ outcomes' = Append(outcomes, "ok")
    /\ done' = [ done EXCEPT ![proc.audio_name] = folder ]
    /\ item_i' = item_i + 1
    /\ proc' = NoProc
    /\ pc' = "main_loop"
    /\ UNCHANGED << cliVars, scrapeVars, mp3Vars, countVars, fs, exc >>

(* --------------------------- specifications -------------------------- *)
Next ==
    \/ CliReject \/ CliAccept
    \/ FetchPageOk \/ FetchPageFail \/ ExtractCandidate \/ ExtractReturn
    \/ NextItem \/ MainReturn \/ Uncaught \/ Rerun
    \/ Mkdir \/ CoverSkip \/ CoverDownload \/ AudioSkip \/ AudioCall
    \/ Mp3Try \/ Mp3GiveUp \/ AudioReturn \/ AudioRaise
    \/ Tag \/ ProcessReturn

Spec == Init /\ [][Next]_vars

\* AudiobookScraper.run on its own, over every catalog of the bounded shapes
InitExtract ==
    /\ Fresh
    /\ runs = 1
    /\ catalog \in SeqsUpTo(Candidates, MaxCandidates)
    /\ fs = [ t \in Titles |-> NoFolder ]
    /\ done = [ t \in Titles |-> NoFolder ]

NextExtract == CliAccept \/ FetchPageOk \/ FetchPageFail \/ ExtractCandidate \/ ExtractReturn

SpecExtract == InitExtract /\ [][NextExtract]_vars

\* FileManager.download_mp3 called on its own: any max_retries, a URL or
\* None, and a destination that is absent, whole, or a zero-byte file
DestFiles == { NoFile, MkFile("a2", BodyLen, BodyLen), MkFile("a2", 0, 0) }

\* one invocation of the script on a page that can list a title twice
InitDup ==
    /\ Fresh
    /\ runs = 1
    /\ catalog \in SeqsUpTo(DupCandidates, MaxCandidates)
    /\ fs = [ t \in Titles |-> NoFolder ]
    /\ done = [ t \in Titles |-> NoFolder ]

NextDup ==
    \/ CliReject \/ CliAccept
    \/ FetchPageOk \/ FetchPageFail \/ ExtractCandidate \/ ExtractReturn
    \/ NextItem \/ MainReturn \/ Uncaught
    \/ Mkdir \/ CoverSkip \/ CoverDownload \/ AudioSkip \/ AudioCall
    \/ Mp3Try \/ Mp3GiveUp \/ AudioReturn \/ AudioRaise
    \/ Tag \/ ProcessReturn

SpecDup == InitDup /\ [][NextDup]_vars

InitMp3 ==
    /\ argv_ok = TRUE
    /\ exit_code = NoExit
    /\ runs = 1
    /\ catalog = << >>
    /\ div_i = 1
    /\ audiobooks = << >>
    /\ origin = << >>
    /\ last_resolve = "none"
    /\ fetch_failed = FALSE
    /\ item_i = 1
    /\ proc = NoProc
    /\ outcomes = << >>
    /\ done = [ t \in Titles |-> NoFolder ]
    /\ exc = "none"
    /\ cover_calls = 0
    /\ tag_calls = 0
    /\ pc = "mp3_loop"
    /\ attempt = 0
    /\ last_kind = "none"
    /\ audio_calls = 0
    /\ audio_fails = 0
    /\ mp3_dest = << "A" >>
    /\ mp3_url \in AudioUrls \cup { None }
    /\ max_retries \in -1..MaxRetriesArg
    /\ \E f \in DestFiles :
         fs = [ t \in Titles |->
                  IF t = << "A" >>
                  THEN [ exists |-> TRUE, cover |-> NoFile, mp3 |-> f ]
                  ELSE NoFolder ]

NextMp3 == Mp3Try \/ Mp3GiveUp

SpecMp3 == InitMp3 /\ [][NextMp3]_vars

\* One invocation of the script, or one download_mp3 call with any
\* max_retries, run by the interpreter: a sequential program whose next
\* statement is always executed (no statement of it blocks for ever: the
\* model gives every transport call an outcome).
InitLive == Init \/ InitMp3

SpecLive == InitLive /\ [][NextDup]_vars /\ WF_vars(NextDup)

(* ------------------------------ properties --------------------------- *)
InProcess == pc \in { "mkdir", "cover", "audio", "mp3_loop", "mp3_return", "mp3_raise",
                      "tag", "process_done" }

\* C1: when the script has ended after a valid command line, a record whose
\* processing failed did not keep the records after it from being processed:
\* every extracted record has had its process() run.
C1_LaterRecordsProcessed ==
    (pc = "exited" /\ argv_ok) =>
        \A i \in 1..Len(outcomes) :
            outcomes[i] = "failed" => Len(outcomes) = Len(audiobooks)

\* C2: with max_retries = n >= 1 and every attempt so far failed, download_mp3
\* has not returned, has made at most n attempts, is still looping while fewer
\* than n were made, and raises 'Max retries exceeded' only after exactly n.
C2_ExactlyNAttempts ==
    (max_retries >= 1 /\ audio_fails = audio_calls /\ pc \in { "mp3_loop", "mp3_return", "mp3_raise" }) =>
        /\ pc # "mp3_return"
        /\ audio_calls <= max_retries
        /\ (audio_calls < max_retries => pc = "mp3_loop" /\ ENABLED Mp3Try)
        /\ (audio_calls = max_retries /\ pc = "mp3_loop" => ENABLED Mp3GiveUp /\ ~ENABLED Mp3Try)
        /\ (pc = "mp3_raise" => audio_calls = max_retries /\ exc = "MaxRetriesExceeded")

C2_Witness ==
    /\ pc = "mp3_raise"
    /\ max_retries = DefaultMaxRetries
    /\ mp3_url # None
    /\ audio_calls = 3
    /\ audio_fails = 3

\* C3: download_mp3 returns exactly on the attempt that brings a whole
\* non-empty body: after k < max_retries failed attempts that is attempt k+1,
\* the destination then holds a non-empty file, and no attempt follows.
C3_SucceedsAfterFailures ==
    /\ [](pc = "mp3_return" =>
            /\ audio_calls = audio_fails + 1
            /\ audio_fails < max_retries
            /\ fs[mp3_dest].mp3.exists
            /\ fs[mp3_dest].mp3.written > 0)
    /\ [][(pc = "mp3_loop" /\ audio_calls' = audio_calls + 1 /\ last_kind' = "body")
            => pc' = "mp3_return"]_vars
    /\ [][pc = "mp3_return" => audio_calls' = audio_calls]_vars

C3_Witness ==
    /\ pc = "mp3_return"
    /\ max_retries = DefaultMaxRetries
    /\ audio_fails = 2
    /\ audio_calls = 3
    /\ fs[mp3_dest].mp3.written > 0

\* C4: an attempt answered 200 with an empty body does what an attempt that
\* met a transport error does (attempt goes up by one, the loop goes on, the
\* destination is not touched), and download_mp3 never returns while the
\* destination is absent or zero bytes long.
C4_EmptyBodyIsFailure ==
    /\ [][(pc = "mp3_loop" /\ audio_calls' = audio_calls + 1
             /\ last_kind' \in { "empty", "conn_error", "http_error" })
            => (attempt' = attempt + 1 /\ pc' = "mp3_loop" /\ fs' = fs)]_vars
    /\ [](pc = "mp3_return" =>
            fs[mp3_dest].mp3.exists /\ fs[mp3_dest].mp3.written > 0)

C4_Witness ==
    /\ pc = "mp3_loop"
    /\ last_kind = "empty"
    /\ attempt = 2
    /\ audio_calls = 2
    /\ ~fs[mp3_dest].mp3.exists

\* C5: a process() run on a title whose earlier process() run completed makes
\* no cover and no audio transport call, makes exactly one tagging call, and
\* leaves the item folder as the completed run left it.
C5_Idempotent ==
    (proc # NoProc /\ done[proc.audio_name].exists) =>
        /\ cover_calls = 0
        /\ audio_calls = 0
        /\ pc \notin { "mp3_loop", "mp3_return", "mp3_raise" }
        /\ tag_calls = (IF pc \in { "mkdir", "cover", "audio", "tag" } THEN 0 ELSE 1)
        /\ fs[proc.audio_name] = done[proc.audio_name]

C5_Witness ==
    /\ pc = "process_done"
    /\ proc # NoProc
    /\ done[proc.audio_name].exists
    /\ tag_calls = 1
    /\ cover_calls = 0
    /\ audio_calls = 0

\* C6: once the script has ended, whatever the transport did, every file that
\* exists at a cover_path or an mp3_path holds a complete payload.
C6_FilesComplete ==
    pc = "exited" =>
        \A t \in Titles :
            /\ (fs[t].cover.exists => Complete(fs[t].cover))
            /\ (fs[t].mp3.exists => Complete(fs[t].mp3))

\* C7: every record extract_audiobook_data has appended has a title that is
\* not empty after trimming and comes from a candidate that has a title
\* element and a non-empty data-id.
C7_NoMalformedRecord ==
    /\ Len(origin) = Len(audiobooks)
    /\ \A i \in 1..Len(audiobooks) :
         /\ audiobooks[i].title # NoneText
         /\ Strip(audiobooks[i].title) # << >>
         /\ origin[i] \in 1..Len(catalog)
         /\ catalog[origin[i]].title # NoneText
         /\ catalog[origin[i]].data_id # None
         /\ catalog[origin[i]].data_id # ""

C7_Witness ==
    /\ pc = "main_loop"
    /\ Len(catalog) = 2
    /\ catalog[1].title = << " " >>
    /\ catalog[1].data_id = "42"
    /\ catalog[2].data_id = "42"
    /\ catalog[2].title = << " ", "A", " " >>
    /\ ~fetch_failed
    /\ Len(audiobooks) = 1
    /\ audiobooks[1].title = << "A" >>

\* a title element with some text that is not whitespace
HasText(t) == t # NoneText /\ \E k \in 1..Len(t) : t[k] # " "

WellFormed(d) == HasText(d.title) /\ d.data_id \notin { None, "" }

\* C8: the records appended so far are the well-formed candidates among those
\* visited, one record each, in document order, each with its candidate's
\* trimmed title; and extraction returns only after the last candidate.
C8_ExactlyWellFormedInOrder ==
    (~fetch_failed /\ pc \in { "extract", "main_loop" }) =>
        LET wf == { j \in 1..(div_i - 1) : WellFormed(catalog[j]) } IN
          /\ Len(audiobooks) = Cardinality(wf)
          /\ Len(origin) = Len(audiobooks)
          /\ { origin[i] : i \in 1..Len(origin) } = wf
          /\ \A i, j \in 1..Len(origin) : i < j => origin[i] < origin[j]
          /\ \A i \in 1..Len(origin) :
               audiobooks[i].title = Strip(catalog[origin[i]].title)
          /\ (pc = "main_loop" => div_i = Len(catalog) + 1)

C8_Witness ==
    /\ pc = "main_loop"
    /\ ~fetch_failed
    /\ Len(catalog) = 2
    /\ ~WellFormed(catalog[1])
    /\ WellFormed(catalog[2])
    /\ Len(audiobooks) = 1
    /\ origin = << 2 >>

\* C9: when fetch_page fails, run raises nothing and returns the empty list;
\* main then constructs no processor, the script exits with 0, and nothing
\* under the destination directory changes.
C9_FetchFailureYieldsEmptyRun ==
    /\ [](fetch_failed =>
            /\ audiobooks = << >>
            /\ exc = "none"
            /\ proc = NoProc
            /\ pc \in { "main_loop", "exited" }
            /\ (pc = "exited" => exit_code = 0))
    /\ [][(fetch_failed /\ fetch_failed') => fs' = fs]_vars

C9_Witness ==
    /\ fetch_failed
    /\ pc = "exited"
    /\ exit_code = 0
    /\ Len(catalog) = 2
    /\ \A t \in Titles : ~fs[t].exists

\* C10: a script started with a valid command line ends with exit code 0.
C10_ExitZeroAfterValidArgs ==
    (pc = "exited" /\ argv_ok) => exit_code = 0

\* C11: a transport failure of get_audio_src's GET raises nothing: the
\* extractor stays in its loop, a kept candidate is appended with audio_link
\* None, and the candidates after it are still visited.
C11_ResolverFailsSoft ==
    /\ [][(pc = "extract" /\ div_i' = div_i + 1 /\ last_resolve' = "transport_error") =>
            /\ pc' = "extract"
            /\ exc' = "none"
            /\ (WellFormed(catalog[div_i]) =>
                  /\ Len(audiobooks') = Len(audiobooks) + 1
                  /\ SubSeq(audiobooks', 1, Len(audiobooks)) = audiobooks
                  /\ audiobooks'[Len(audiobooks')].title = Strip(catalog[div_i].title)
                  /\ audiobooks'[Len(audiobooks')].audio_link = None)
            /\ (~WellFormed(catalog[div_i]) => audiobooks' = audiobooks)]_vars
    /\ [](pc = "extract" => (div_i <= Len(catalog) => ENABLED ExtractCandidate))
    /\ [](pc = "extract" => exc = "none")

C11_Witness ==
    /\ pc = "extract"
    /\ Len(catalog) = 2
    /\ div_i = 2
    /\ last_resolve = "transport_error"
    /\ Len(audiobooks) = 1
    /\ audiobooks[1].audio_link = None
    /\ WellFormed(catalog[2])

\* the data of a file, its tag aside
Payload(f) == [ exists |-> f.exists, src |-> f.src, written |-> f.written, total |-> f.total ]

Stage ==
    CASE pc = "mkdir" -> 0
      [] pc = "cover" -> 1
      [] pc \in { "audio", "mp3_loop", "mp3_return", "mp3_raise" } -> 2
      [] pc = "tag" -> 3
      [] pc = "process_done" -> 4
      [] OTHER -> 5

\* C13: a process() under way goes from each state to itself or to the next
\* one and leaves only by a failure or from Tagged; the folder exists from
\* FolderEnsured on, the cover from CoverReady on, the mp3 from AudioReady
\* on; an audio transport call is made only in CoverReady and a tagging call
\* only in AudioReady, with both files on disk.
C13_StagesInOrder ==
    /\ [][(InProcess /\ InProcess') => (Stage' = Stage \/ Stage' = Stage + 1)]_vars
    /\ [][(InProcess /\ ~InProcess') =>
            (pc' = "raise" \/ (Stage = 4 /\ pc' = "main_loop"))]_vars
    /\ [][(~InProcess /\ InProcess') => Stage' = 0]_vars
    /\ []((InProcess /\ proc # NoProc) =>
            /\ (Stage >= 1 => folder.exists)
            /\ (Stage >= 2 => folder.cover.exists)
            /\ (Stage >= 3 => folder.mp3.exists)
            /\ (Stage = 4 => folder.mp3.tag.TIT2 = proc.audio_name /\ tag_calls = 1)
            /\ (Stage < 2 => audio_calls = 0)
            /\ (Stage < 4 => tag_calls = 0))
    /\ [][audio_calls' = audio_calls + 1 => (Stage = 2 /\ folder.cover.exists)]_vars
    /\ [][tag_calls' = tag_calls + 1 =>
            (Stage = 3 /\ folder.cover.exists /\ folder.mp3.exists)]_vars

C13_Witness ==
    /\ pc = "process_done"
    /\ proc # NoProc
    /\ cover_calls = 1
    /\ audio_calls = 2
    /\ tag_calls = 1

\* C14: download_file makes one transport call and raises at once when it
\* fails (no response body, an error status or a broken stream); process()
\* calls it at most once, and after its failure the item has had no audio
\* transport call and no tagging call in this run.
C14_CoverSingleAttempt ==
    /\ [](cover_calls <= 1)
    /\ [][cover_calls' = cover_calls + 1 =>
            /\ pc = "cover"
            /\ cover_calls' = 1
            /\ IF \/ ~fs'[proc.audio_name].cover.exists
                  \/ fs'[proc.audio_name].cover.written < fs'[proc.audio_name].cover.total
               THEN pc' = "raise" /\ exc' = "RequestException"
               ELSE pc' = "audio" /\ exc' = exc]_vars
    /\ []((proc # NoProc /\ pc \in { "raise", "exited" } /\ exc = "RequestException") =>
            /\ cover_calls = 1
            /\ audio_calls = 0
            /\ tag_calls = 0)
    /\ [][(pc = "raise" /\ exc = "RequestException") =>
            (pc' = "exited" /\ cover_calls' = 1 /\ audio_calls' = 0 /\ tag_calls' = 0)]_vars

C14_Witness ==
    /\ pc = "raise"
    /\ exc = "RequestException"
    /\ proc # NoProc
    /\ proc.audio_link # None
    /\ cover_calls = 1
    /\ folder.cover.exists
    /\ folder.cover.written < folder.cover.total
    /\ ~folder.mp3.exists

\* C15 as claimed: a download_mp3 call whose attempts end on a broken stream
\* or an empty body and that gives up with 'Max retries exceeded' leaves a
\* partial or zero-byte file at destination_path.
C15_GiveUpLeavesCorruptFile ==
    (pc = "mp3_raise" /\ proc # NoProc /\ last_kind \in { "broken", "empty" }) =>
        (fs[mp3_dest].mp3.exists /\ ~Complete(fs[mp3_dest].mp3))

\* C15 as amended: a failed download_mp3 attempt writes nothing, so a call
\* that gives up with 'Max retries exceeded' leaves destination_path absent
\* as it was before the call; every mp3 on disk is whole, and the next
\* process() for the item calls download_mp3 again instead of skipping.
C15_GiveUpLeavesNoFile ==
    /\ []((pc = "mp3_raise" /\ proc # NoProc) => ~fs[mp3_dest].mp3.exists)
    /\ [][(pc = "mp3_loop" /\ pc' \in { "mp3_loop", "mp3_raise" }) => fs' = fs]_vars
    /\ [][(pc \in { "mp3_raise", "raise" } /\ exc = "MaxRetriesExceeded") =>
            (fs' = fs /\ ~fs'[proc.audio_name].mp3.exists)]_vars
    /\ [](\A t \in Titles : fs[t].mp3.exists => Complete(fs[t].mp3))
    /\ []((pc = "audio" /\ proc # NoProc /\ ~folder.mp3.exists) =>
            (ENABLED AudioCall /\ ~ENABLED AudioSkip))

C15_Witness ==
    /\ pc = "mp3_raise"
    /\ proc # NoProc
    /\ exc = "MaxRetriesExceeded"
    /\ last_kind = "broken"
    /\ audio_calls = DefaultMaxRetries
    /\ audio_fails = DefaultMaxRetries
    /\ ~fs[mp3_dest].mp3.exists

DownloadFailed == exc \in { "RequestException", "MaxRetriesExceeded" }

\* C16: a download failure inside process() leaves process() as a raised
\* exception and nothing is cleaned up: the item folder still exists, the
\* files that were there before the failing step are unchanged (a cover
\* through the whole of download_mp3), nothing on disk changes while the
\* exception travels; a later run calls a downloader only for a file that
\* is missing, and always for a file that is missing.
C16_NoCleanupOnFailure ==
    /\ [][(InProcess /\ pc' = "raise" /\ DownloadFailed') =>
            /\ fs'[proc.audio_name].exists
            /\ (folder.cover.exists => fs'[proc.audio_name].cover = folder.cover)
            /\ (folder.mp3.exists => fs'[proc.audio_name].mp3 = folder.mp3)
            /\ \A t \in Titles \ { proc.audio_name } : fs'[t] = fs[t]]_vars
    /\ [][(pc \in { "mp3_loop", "mp3_raise" }) =>
            (/\ fs'[proc.audio_name].exists
             /\ fs'[proc.audio_name].cover = folder.cover
             /\ \A t \in Titles \ { proc.audio_name } : fs'[t] = fs[t])]_vars
    /\ [][(pc \in { "raise", "exited" }) => fs' = fs]_vars
    /\ []((pc \in { "raise", "exited" } /\ proc # NoProc /\ DownloadFailed) => folder.exists)
    /\ [][cover_calls' = cover_calls + 1 => ~folder.cover.exists]_vars
    /\ [][(pc = "audio" /\ pc' = "mp3_loop") => ~folder.mp3.exists]_vars
    /\ []((pc = "cover" /\ proc # NoProc) =>
            /\ (ENABLED CoverDownload) <=> ~folder.cover.exists
            /\ (ENABLED CoverSkip) <=> folder.cover.exists)
    /\ []((pc = "audio" /\ proc # NoProc) =>
            /\ (ENABLED AudioCall) <=> ~folder.mp3.exists
            /\ (ENABLED AudioSkip) <=> folder.mp3.exists)

C16_Witness ==
    /\ runs = 2
    /\ pc = "mp3_loop"
    /\ proc # NoProc
    /\ item_i = 1
    /\ cover_calls = 0
    /\ Complete(folder.cover)
    /\ ~folder.mp3.exists
    /\ audio_calls = 1

\* the first record of this run that has the title of the record in process
FirstOfTitle ==
    CHOOSE j \in 1..item_i :
        /\ audiobooks[j].title = proc.audio_name
        /\ \A k \in 1..(j - 1) : audiobooks[k].title # proc.audio_name

\* C17: while process() handles a record whose title an earlier record of
\* the same run had (that record was processed to the end, or the run would
\* have ended there), it makes no cover and no audio transport call
\* whatever its own URLs are, makes one tagging call, and the folder holds
\* the files the first record of that title downloaded, from that record's
\* URLs, as its process() left them.
C17_DuplicateTitleSkips ==
    (proc # NoProc /\ FirstOfTitle < item_i) =>
        /\ cover_calls = 0
        /\ audio_calls = 0
        /\ pc \notin { "mp3_loop", "mp3_return", "mp3_raise" }
        /\ tag_calls = (IF pc \in { "mkdir", "cover", "audio", "tag" } THEN 0 ELSE 1)
        /\ folder.cover.exists
        /\ folder.mp3.exists
        /\ folder.cover.src = audiobooks[FirstOfTitle].cover_link
        /\ folder.mp3.src = audiobooks[FirstOfTitle].audio_link
        /\ fs[proc.audio_name] = done[proc.audio_name]

C17_Witness ==
    /\ pc = "process_done"
    /\ proc # NoProc
    /\ item_i = 2
    /\ audiobooks[1].title = audiobooks[2].title
    /\ audiobooks[1].cover_link = "c1"
    /\ audiobooks[2].cover_link = "c2"
    /\ audiobooks[1].audio_link = "a1"
    /\ audiobooks[2].audio_link = "a2"
    /\ cover_calls = 0
    /\ audio_calls = 0
    /\ tag_calls = 1
    /\ folder.cover.src = "c1"
    /\ folder.mp3.src = "a1"

Max(a, b) == IF a >= b THEN a ELSE b

\* C18: whatever the transport answers, a download_mp3 call under way
\* eventually returns or raises and has made at most max_retries transport
\* calls, and a process() under way eventually returns (Done) or fails,
\* having made at most one cover transport call, at most max_retries (the
\* default, 3) audio transport calls and at most one tagging call.
C18_Terminates ==
    /\ (pc = "mp3_loop") ~> (pc \in { "mp3_return", "mp3_raise" })
    /\ (InProcess /\ proc # NoProc) ~> (pc \in { "main_loop", "raise" })
    /\ [](pc \in { "mp3_loop", "mp3_return", "mp3_raise" } =>
            /\ attempt <= Max(0, max_retries)
            /\ audio_calls <= Max(0, max_retries))
    /\ []((InProcess /\ proc # NoProc) =>
            /\ cover_calls <= 1
            /\ audio_calls <= DefaultMaxRetries
            /\ tag_calls <= 1)
    /\ [][(pc \in { "main_loop", "raise" } /\ proc' = proc) =>
            (cover_calls' = cover_calls /\ audio_calls' = audio_calls
               /\ tag_calls' = tag_calls)]_vars

C18_Witness ==
    /\ pc = "main_loop"
    /\ item_i = 2
    /\ outcomes = << "ok" >>
    /\ cover_calls = 1
    /\ audio_calls = DefaultMaxRetries
    /\ tag_calls = 1

NoCoverCase == proc # NoProc /\ proc.cover_link = None /\ ~folder.cover.exists

\* C19: process() of a record without a cover URL whose cover file is absent
\* gets no further than the cover step: it creates the folder, its one
\* download_file call raises and leaves the cover absent, and no audio
\* transport call and no tagging call is made whatever the audio URL is;
\* as the cover stays absent every later process() of the record ends the
\* same way, and an mp3 exists only in a folder that has a cover.
C19_NoCoverUrlBlocksAudio ==
    /\ [](NoCoverCase =>
            /\ pc \in { "mkdir", "cover", "raise", "exited" }
            /\ audio_calls = 0
            /\ tag_calls = 0
            /\ (pc \in { "raise", "exited" } =>
                  (folder.exists /\ cover_calls = 1 /\ exc = "RequestException")))
    /\ [][(NoCoverCase /\ pc = "cover") =>
            (pc' = "raise" /\ cover_calls' = 1 /\ fs' = fs /\ proc' = proc)]_vars
    /\ [][(NoCoverCase /\ pc = "mkdir") =>
            (pc' = "cover" /\ fs'[proc.audio_name].exists /\ proc' = proc
               /\ ~fs'[proc.audio_name].cover.exists)]_vars
    /\ [](\A t \in Titles :
            /\ (fs[t].cover.exists => fs[t].cover.src # None)
            /\ (fs[t].mp3.exists => fs[t].cover.exists))

C19_Witness ==
    /\ runs = 2
    /\ pc = "raise"
    /\ NoCoverCase
    /\ proc.audio_link \in AudioUrls
    /\ folder.exists
    /\ cover_calls = 1
    /\ exc = "RequestException"
    /\ ~folder.mp3.exists

\* C20: one download_mp3 call never makes more than max(0, max_retries)
\* transport calls; with max_retries <= 0 it makes none, leaves the disk
\* (destination_path included, present or absent) as it was, and its only
\* step is to raise 'Max retries exceeded'.
C20_NonPositiveRetries ==
    /\ [](audio_calls <= Max(0, max_retries))
    /\ [](max_retries <= 0 =>
            /\ audio_calls = 0
            /\ pc \in { "mp3_loop", "mp3_raise" }
            /\ (pc = "mp3_loop" => (ENABLED Mp3GiveUp /\ ~ENABLED Mp3Try))
            /\ (pc = "mp3_raise" => exc = "MaxRetriesExceeded"))
    /\ [][max_retries <= 0 =>
            (fs' = fs /\ pc' = "mp3_raise" /\ audio_calls' = 0)]_vars

C20_Witness ==
    /\ pc = "mp3_raise"
    /\ max_retries = 0
    /\ mp3_url \in AudioUrls
    /\ audio_calls = 0
    /\ exc = "MaxRetriesExceeded"
    /\ ~fs[mp3_dest].mp3.exists

====
